---- MODULE Spec2Model ----
(***************************************************************************)
(* PolygonTesselator of solid-polygon-layer/polygon-tesselator.js.         *)
(*                                                                         *)
(* Typed arrays are records [type, length, data, id]: data is a function   *)
(* on 0..length-1 (the source's 0-based indices), id tells one buffer      *)
(* object from another one allocated later under the same cache key.       *)
(* Polygons, rings and vertices are 1-based sequences; a vertex is         *)
(* <<x, y>> or <<x, y, z>>.                                                *)
(***************************************************************************)
EXTENDS Integers, Sequences, FiniteSets, TLC

VARIABLES
    polygons,      \* this.polygons (normalized)
    pointCount,    \* this.pointCount
    IndexType,     \* this.IndexType
    attributes,    \* this.attributes: cache key -> buffer or Undefined
    status,        \* "constructed" | "failed" (the constructor threw)
    lastCall,      \* the last call made on the tesselator, with its arguments
    ret,           \* what the last call returned
    retFresh,      \* whether the returned buffer object was allocated by the last call
    calledUpdate,  \* updatePositions was called at least once
    calledFp64,    \* updatePositions was called with fp64 = true at least once
    picked         \* last application of getPickingColor: [called, index, color]

vars == <<polygons, pointCount, IndexType, attributes, status, lastCall, ret,
          retFresh, calledUpdate, calledFp64, picked>>

----------------------------------------------------------------------------
(* Bounds of the model *)

\* vertices of the large ring: with the 3 vertices of a triangle after it the
\* collection exceeds the range of an 8-bit index
BigRingSize == 255
\* vertices of the ring that exceeds the range of a 16-bit index
HugeRingSize == 65536
\* polygons of a collection drawn from Shapes
MaxPolygons == 2

----------------------------------------------------------------------------
(* JavaScript values *)

\* not-a-number, as an accessor may return it for alpha
NaN == -1

Pow2(n) == 2 ^ n

\* Math.fround on the non-negative integers below 2^25: exact up to 2^24,
\* above it round to the nearest even integer, ties to the even mantissa
Fround(x) ==
    IF x <= Pow2(24) THEN x
    ELSE IF x % 2 = 0 THEN x
    ELSE IF (x \div 2) % 2 = 0 THEN x - 1 ELSE x + 1

\* @deck.gl/core fp64LowPart: what single precision loses of x
fp64LowPart(x) == x - Fround(x)

Undefined == [type |-> "undefined", length |-> 0, data |-> <<>>, id |-> 0]

\* new T(n): zero-filled
NewTypedArray(T, n, id) ==
    [type |-> T, length |-> n, data |-> [k \in 0..(n - 1) |-> 0], id |-> id]

\* the value a typed array of type T keeps of v
Convert(T, v) ==
    CASE T = "Float32Array" -> Fround(v)
      [] T = "Uint8ClampedArray" ->
            IF v = NaN \/ v < 0 THEN 0 ELSE IF v > 255 THEN 255 ELSE v
      [] T = "Uint8Array" -> v % Pow2(8)
      [] T = "Uint16Array" -> v % Pow2(16)
      [] T = "Uint32Array" ->  \* v modulo 2^32, by 16-bit halves
            (v % Pow2(16)) + Pow2(16) * ((v \div Pow2(16)) % Pow2(16))

\* buf[k] = v; a write outside the array is dropped
Store(buf, k, v) ==
    IF k >= 0 /\ k < buf.length
    THEN [buf EXCEPT !.data = [@ EXCEPT ![k] = Convert(buf.type, v)]]
    ELSE buf

\* @deck.gl/core fillArray: source copied count times into target from start
fillArray(target, source, start, count) ==
    LET n == Len(source) IN
    [target EXCEPT !.data =
        [k \in DOMAIN target.data |->
            IF k >= start /\ k < start + n * count
            THEN Convert(target.type, source[((k - start) % n) + 1])
            ELSE target.data[k]]]

----------------------------------------------------------------------------
(* The polygon collaborator (./polygon) *)

\* a raw polygon is [simple |-> TRUE, data |-> ring] for a bare ring and
\* [simple |-> FALSE, data |-> <<outer, hole, ...>>] for rings with holes;
\* normalized, it is a sequence of rings
Polygon_normalize(polygon) ==
    IF polygon.simple THEN <<polygon.data>> ELSE polygon.data

RECURSIVE SumLen(_)
SumLen(rings) ==
    IF rings = <<>> THEN 0 ELSE Len(Head(rings)) + SumLen(Tail(rings))

Polygon_getVertexCount(polygon) == SumLen(polygon)

\* all vertices of the polygon, outer ring first, then the holes
RECURSIVE Flatten(_)
Flatten(rings) ==
    IF rings = <<>> THEN <<>> ELSE Head(rings) \o Flatten(Tail(rings))

\* the visits of forEachVertex: the vertex and its index within the polygon
Polygon_forEachVertex(polygon) ==
    LET vs == Flatten(polygon) IN
    [k \in 1..Len(vs) |-> [vertex |-> vs[k], vertexIndex |-> k - 1]]

Polygon_getTriangleCount(polygon) ==
    LET n == Polygon_getVertexCount(polygon) IN IF n >= 3 THEN n - 2 ELSE 0

\* local triangle indices, 3 per triangle, each in [0, vertexCount)
Polygon_getSurfaceIndices(polygon) ==
    LET t == Polygon_getTriangleCount(polygon) IN
    [k \in 1..(3 * t) |->
        LET tri == (k - 1) \div 3
            c == (k - 1) % 3
        IN IF c = 0 THEN 0 ELSE tri + c]

----------------------------------------------------------------------------
(* polygon-tesselator.js: module functions *)

\* getPickingColor without its index++
getPickingColorNoIncrement(index) ==
    <<index % 256, (index \div 256) % 256, (index \div 65536) % 256>>

getPickingColor(index) ==
    LET index1 == index + 1 IN
    <<index1 % 256, (index1 \div 256) % 256, (index1 \div 65536) % 256>>

DEFAULT_COLOR == <<0, 0, 0, 255>>

\* getPointCount counting the outer ring of each polygon only
RECURSIVE getPointCountOuterRing(_)
getPointCountOuterRing(ps) ==
    IF ps = <<>> THEN 0
    ELSE getPointCountOuterRing(SubSeq(ps, 1, Len(ps) - 1)) + Len(ps[Len(ps)][1])

\* Count number of points in a list of complex polygons
RECURSIVE getPointCount(_)
getPointCount(ps) ==
    IF ps = <<>> THEN 0
    ELSE getPointCount(SubSeq(ps, 1, Len(ps) - 1)) + Polygon_getVertexCount(ps[Len(ps)])

\* Count number of triangles in a list of complex polygons
RECURSIVE getTriangleCount(_)
getTriangleCount(ps) ==
    IF ps = <<>> THEN 0
    ELSE getTriangleCount(SubSeq(ps, 1, Len(ps) - 1))
            + Polygon_getTriangleCount(ps[Len(ps)])

\* getPolygonOffsets with offset += vertexCount ahead of offsets[i], so that
\* offsets[i] already counts polygon i
RECURSIVE getPolygonOffsetsInclusive(_)
getPolygonOffsetsInclusive(ps) ==
    IF ps = <<>> THEN [k \in {0} |-> 0]
    ELSE LET n == Len(ps)
             before == getPolygonOffsetsInclusive(SubSeq(ps, 1, n - 1))
             last == (IF n = 1 THEN 0 ELSE before[n - 2])
                        + Polygon_getVertexCount(ps[n])
         IN [k \in 0..n |-> IF k < n - 1 THEN before[k] ELSE last]

\* offsets[0..n], 0-based as in the source
RECURSIVE getPolygonOffsets(_)
getPolygonOffsets(ps) ==
    IF ps = <<>> THEN [k \in {0} |-> 0]
    ELSE LET n == Len(ps)
             before == getPolygonOffsets(SubSeq(ps, 1, n - 1))
         IN [k \in 0..n |->
                IF k < n THEN before[k]
                ELSE before[n - 1] + Polygon_getVertexCount(ps[n])]

\* the element type calculateIndices allocates: IndexType = Uint32Array by default
IndexArrayType(T) == IF T = "undefined" THEN "Uint32Array" ELSE T

\* the values calculateIndices writes, in the order it writes them
RECURSIVE OffsetIndices(_, _, _)
OffsetIndices(ps, offsets, polygonIndex) ==
    IF polygonIndex >= Len(ps) THEN <<>>
    ELSE LET local == Polygon_getSurfaceIndices(ps[polygonIndex + 1])
         IN [k \in 1..Len(local) |-> local[k] + offsets[polygonIndex]]
            \o OffsetIndices(ps, offsets, polygonIndex + 1)

\* attribute[i++] = value for each value in turn, i from 0: the k-th value lands
\* in slot k, and a value past the end of the array is dropped
calculateIndices(ps, T) ==
    LET indexCount == 3 * getTriangleCount(ps)
        offsets == getPolygonOffsets(ps)
        attribute == NewTypedArray(IndexArrayType(T), indexCount, 0)
        values == OffsetIndices(ps, offsets, 0)
    IN [attribute EXCEPT !.data =
            [k \in DOMAIN attribute.data |->
                IF k < Len(values) THEN Convert(attribute.type, values[k + 1])
                ELSE attribute.data[k]]]

NoStartVertex == [set |-> FALSE, x |-> 0, y |-> 0, z |-> 0, xLow |-> 0, yLow |-> 0]

pushStartVertex(st, x, y, z, xLow, yLow, extruded) ==
    IF extruded
    THEN [st EXCEPT !.startVertex =
            [set |-> TRUE, x |-> x, y |-> y, z |-> z, xLow |-> xLow, yLow |-> yLow]]
    ELSE st

popStartVertex(st, fp64) ==
    LET sv == st.startVertex
        n == st.nextI
        np == Store(Store(Store(st.nextPositions, n * 3, sv.x), n * 3 + 1, sv.y),
                    n * 3 + 2, sv.z)
        nl == IF fp64
              THEN Store(Store(st.nextPositions64xyLow, n * 2, sv.xLow),
                         n * 2 + 1, sv.yLow)
              ELSE st.nextPositions64xyLow
    IN IF sv.set
       THEN [st EXCEPT !.nextPositions = np, !.nextPositions64xyLow = nl,
                       !.nextI = n + 1, !.startVertex = NoStartVertex]
       ELSE [st EXCEPT !.startVertex = NoStartVertex]

\* the visitor updatePositions hands to Polygon.forEachVertex
VisitVertex(st, visit, extruded, fp64) ==
    LET vertex == visit.vertex
        vertexIndex == visit.vertexIndex
        x == vertex[1]
        y == vertex[2]
        z == IF Len(vertex) >= 3 THEN vertex[3] ELSE 0
        xLow == IF fp64 THEN fp64LowPart(x) ELSE 0
        yLow == IF fp64 THEN fp64LowPart(y) ELSE 0
        i == st.i
        n == st.nextI
        s1 == [st EXCEPT
                 !.positions = Store(Store(Store(@, i * 3, x), i * 3 + 1, y),
                                     i * 3 + 2, z),
                 !.positions64xyLow =
                     IF fp64 THEN Store(Store(@, i * 2, xLow), i * 2 + 1, yLow) ELSE @,
                 !.i = i + 1]
        s2 == IF extruded /\ vertexIndex > 0
              THEN [s1 EXCEPT
                      !.nextPositions = Store(Store(Store(@, n * 3, x), n * 3 + 1, y),
                                              n * 3 + 2, z),
                      !.nextPositions64xyLow =
                          IF fp64 THEN Store(Store(@, n * 2, xLow), n * 2 + 1, yLow)
                          ELSE @,
                      !.nextI = n + 1]
              ELSE s1
    IN IF vertexIndex = 0
       THEN pushStartVertex(popStartVertex(s2, fp64), x, y, z, xLow, yLow, extruded)
       ELSE s2

\* every call of the visitor, over all polygons in order
RECURSIVE AllVisits(_)
AllVisits(ps) ==
    IF ps = <<>> THEN <<>>
    ELSE Polygon_forEachVertex(Head(ps)) \o AllVisits(Tail(ps))

\* the visits lo..hi in order, by halves (the left half is complete, st.i >= 0,
\* before the right half starts)
RECURSIVE VisitRange(_, _, _, _, _, _)
VisitRange(st, visits, lo, hi, extruded, fp64) ==
    IF lo > hi THEN st
    ELSE IF lo = hi THEN VisitVertex(st, visits[lo], extruded, fp64)
    ELSE LET mid == (lo + hi) \div 2
             left == VisitRange(st, visits, lo, mid, extruded, fp64)
         IN IF left.i >= 0
            THEN VisitRange(left, visits, mid + 1, hi, extruded, fp64)
            ELSE left

\* the module function updatePositions: the four buffers of the cache, rewritten
updatePositions(cache, ps, extruded, fp64) ==
    LET st0 == [positions |-> cache["positions"],
                positions64xyLow |-> cache["positions64xyLow"],
                nextPositions |-> cache["nextPositions"],
                nextPositions64xyLow |-> cache["nextPositions64xyLow"],
                i |-> 0, nextI |-> 0, startVertex |-> NoStartVertex]
        visits == AllVisits(ps)
        st == popStartVertex(VisitRange(st0, visits, 1, Len(visits), extruded, fp64),
                             fp64)
    IN [cache EXCEPT !["positions"] = st.positions,
                     !["positions64xyLow"] = st.positions64xyLow,
                     !["nextPositions"] = st.nextPositions,
                     !["nextPositions64xyLow"] = st.nextPositions64xyLow]

\* the accessors a caller may pass: 0 is the default of the method
getElevation(acc, polygonIndex) ==
    IF acc = 0 THEN 100 ELSE 10 * (polygonIndex + 1)

getColor(acc, polygonIndex) ==
    IF acc = 0 THEN DEFAULT_COLOR
    ELSE CASE polygonIndex % 3 = 0 -> <<10 + polygonIndex, 20, 30, 128>>
           [] polygonIndex % 3 = 1 -> <<10 + polygonIndex, 20, 30, NaN>>
           [] OTHER -> <<10 + polygonIndex, 20, 30>>

RECURSIVE FillElevations(_, _, _, _, _)
FillElevations(elevations, ps, polygonIndex, i, acc) ==
    IF polygonIndex >= Len(ps) THEN elevations
    ELSE LET height == getElevation(acc, polygonIndex)
             vertexCount == Polygon_getVertexCount(ps[polygonIndex + 1])
         IN FillElevations(fillArray(elevations, <<height>>, i, vertexCount),
                           ps, polygonIndex + 1, i + vertexCount, acc)

\* updateElevations allocating on every call instead of reusing the cache
updateElevationsReallocating(cache, ps, n, acc, newId) ==
    FillElevations(NewTypedArray("Float32Array", n, newId), ps, 0, 0, acc)

updateElevations(cache, ps, n, acc, newId) ==
    LET elevations == IF cache # Undefined THEN cache
                      ELSE NewTypedArray("Float32Array", n, newId)
    IN FillElevations(elevations, ps, 0, 0, acc)

\* isNaN(color[3]): a missing fourth component is undefined, which is not a number
AlphaFixed(color) ==
    IF Len(color) < 4 THEN color \o <<255>>
    ELSE IF color[4] = NaN THEN [color EXCEPT ![4] = 255] ELSE color

RECURSIVE FillColors(_, _, _, _, _)
FillColors(colors, ps, polygonIndex, i, acc) ==
    IF polygonIndex >= Len(ps) THEN colors
    ELSE LET color == AlphaFixed(getColor(acc, polygonIndex))
             vertexCount == Polygon_getVertexCount(ps[polygonIndex + 1])
         IN FillColors(fillArray(colors, color, i, vertexCount),
                       ps, polygonIndex + 1, i + Len(color) * vertexCount, acc)

updateColors(cache, ps, n, acc, newId) ==
    LET colors == IF cache # Undefined THEN cache
                  ELSE NewTypedArray("Uint8ClampedArray", n * 4, newId)
    IN FillColors(colors, ps, 0, 0, acc)

RECURSIVE FillPickingColors(_, _, _, _)
FillPickingColors(attribute, ps, polygonIndex, i) ==
    IF polygonIndex >= Len(ps) THEN attribute
    ELSE LET color == getPickingColor(polygonIndex)
             vertexCount == Polygon_getVertexCount(ps[polygonIndex + 1])
         IN FillPickingColors(fillArray(attribute, color, i, vertexCount),
                              ps, polygonIndex + 1, i + Len(color) * vertexCount)

calculatePickingColors(ps, n) ==
    FillPickingColors(NewTypedArray("Uint8ClampedArray", n * 3, 1), ps, 0, 0)

----------------------------------------------------------------------------
(* Inputs of the constructor and of the calls *)

Triangle == <<<<0, 0>>, <<1, 0>>, <<0, 1>>>>
Square == <<<<0, 0>>, <<4, 0>>, <<4, 4>>, <<0, 4>>>>
Hole == <<<<1, 1>>, <<2, 1>>, <<1, 2>>>>
\* three-dimensional, with coordinates single precision cannot hold
Tri3D == <<<<16777217, 5, 7>>, <<16777219, 6, 7>>, <<9, 16777221, 8>>>>
LongRing(n) == [j \in 1..n |-> <<10 + j, 3>>]

Simple(ring) == [simple |-> TRUE, data |-> ring]
Complex(rings) == [simple |-> FALSE, data |-> rings]

\* the constructor's arguments {polygons, IndexType} of the full call sequences
Inputs == <<
    [polygons |-> <<Simple(Triangle)>>, IndexType |-> "Uint32Array"],
    [polygons |-> <<Complex(<<Square, Hole>>)>>, IndexType |-> "Uint16Array"],
    [polygons |-> <<Simple(Triangle), Simple(Square)>>, IndexType |-> "Uint8Array"],
    [polygons |-> <<Complex(<<Square, Hole>>), Simple(Tri3D), Simple(Triangle)>>,
     IndexType |-> "undefined"]
>>

\* the polygons and index types constructions are drawn from
Shapes == <<Simple(Triangle), Complex(<<Square, Hole>>),
            Simple(LongRing(BigRingSize))>>
IndexTypes == {"Uint8Array", "Uint16Array", "Uint32Array", "undefined"}

\* the cache keys of this.attributes
Keys == {"pickingColors", "positions", "nextPositions", "positions64xyLow",
         "nextPositions64xyLow", "elevations", "colors"}

\* the key arguments given to elevations() and to colors(): the default of each
\* and the name of another attribute
ElevationKeys == {"elevations", "colors"}
ColorKeys == {"colors", "positions"}
Accessors == {0, 1}

\* the indices getPickingColor is applied to
PickSamples == {0, 1, 2, 254, 255, 256, 257, 65534, 65535, 65536,
                Pow2(24) - 3, Pow2(24) - 2, Pow2(24) - 1}

----------------------------------------------------------------------------
(* The class PolygonTesselator *)

NoCache == [k \in Keys |-> Undefined]

Call(op, fp64, extruded, key, acc) ==
    [op |-> op, fp64 |-> fp64, extruded |-> extruded, key |-> key, acc |-> acc]

\* the fields of the object the constructor leaves, and whether it threw
constructor(input) ==
    LET ps == [k \in 1..Len(input.polygons) |->
                    Polygon_normalize(input.polygons[k])]
        n == getPointCount(ps)
        throws == input.IndexType = "Uint16Array" /\ n > 65535
    IN [polygons |-> ps, pointCount |-> n, IndexType |-> input.IndexType,
        status |-> IF throws THEN "failed" ELSE "constructed",
        attributes |-> IF throws THEN NoCache
                       ELSE [NoCache EXCEPT
                               !["pickingColors"] = calculatePickingColors(ps, n)]]

Constructed(input) ==
    LET this == constructor(input) IN
    /\ polygons = this.polygons
    /\ pointCount = this.pointCount
    /\ IndexType = this.IndexType
    /\ attributes = this.attributes
    /\ status = this.status
    /\ lastCall = Call("constructor", FALSE, FALSE, "", 0)
    /\ ret = Undefined
    /\ retFresh = FALSE
    /\ calledUpdate = FALSE
    /\ calledFp64 = FALSE
    /\ picked = [called |-> FALSE, index |-> 0, color |-> <<0, 0, 0>>]

Init == \E c \in 1..Len(Inputs) : Constructed(Inputs[c])

\* construction over collections of up to MaxPolygons shapes and every index
\* type, and over the ring a 16-bit index cannot address
InitBuild ==
    \/ \E n \in 0..MaxPolygons, T \in IndexTypes :
         \E f \in [1..n -> 1..Len(Shapes)] :
            Constructed([polygons |-> [k \in 1..n |-> Shapes[f[k]]], IndexType |-> T])
    \/ Constructed([polygons |-> <<Simple(LongRing(HugeRingSize))>>,
                    IndexType |-> "Uint16Array"])

\* this.attributes[key] || new T(n)
OrNew(cache, T, n) ==
    IF cache # Undefined THEN cache ELSE NewTypedArray(T, n, cache.id + 1)

PolygonTesselator_updatePositions(fp64, extruded) ==
    /\ status = "constructed"
    /\ LET a1 == [attributes EXCEPT
                    !["positions"] = OrNew(@, "Float32Array", pointCount * 3),
                    !["nextPositions"] = OrNew(@, "Float32Array", pointCount * 3)]
           a2 == IF fp64
                 THEN [a1 EXCEPT
                         !["positions64xyLow"] =
                             OrNew(@, "Float32Array", pointCount * 2),
                         !["nextPositions64xyLow"] =
                             OrNew(@, "Float32Array", pointCount * 2)]
                 ELSE a1
       IN attributes' = updatePositions(a2, polygons, extruded, fp64)
    /\ lastCall' = Call("updatePositions", fp64, extruded, "", 0)
    /\ ret' = Undefined
    /\ retFresh' = FALSE
    /\ calledUpdate' = TRUE
    /\ calledFp64' = (calledFp64 \/ fp64)
    /\ UNCHANGED <<polygons, pointCount, IndexType, status, picked>>

PolygonTesselator_indices ==
    /\ status = "constructed"
    /\ ret' = calculateIndices(polygons, IndexType)
    /\ retFresh' = TRUE
    /\ lastCall' = Call("indices", FALSE, FALSE, "", 0)
    /\ UNCHANGED <<polygons, pointCount, IndexType, attributes, status,
                   calledUpdate, calledFp64, picked>>

PolygonTesselator_elevations(key, acc) ==
    /\ status = "constructed"
    /\ LET values == updateElevations(attributes[key], polygons, pointCount, acc,
                                      attributes[key].id + 1)
       IN /\ attributes' = [attributes EXCEPT ![key] = values]
          /\ ret' = values
          /\ retFresh' = (attributes[key] = Undefined \/ values.id # attributes[key].id)
    /\ lastCall' = Call("elevations", FALSE, FALSE, key, acc)
    /\ UNCHANGED <<polygons, pointCount, IndexType, status, calledUpdate,
                   calledFp64, picked>>

PolygonTesselator_colors(key, acc) ==
    /\ status = "constructed"
    /\ LET values == updateColors(attributes[key], polygons, pointCount, acc,
                                  attributes[key].id + 1)
       IN /\ attributes' = [attributes EXCEPT ![key] = values]
          /\ ret' = values
          /\ retFresh' = (attributes[key] = Undefined \/ values.id # attributes[key].id)
    /\ lastCall' = Call("colors", FALSE, FALSE, key, acc)
    /\ UNCHANGED <<polygons, pointCount, IndexType, status, calledUpdate,
                   calledFp64, picked>>

\* the getters: what each returns in the current state
positions == attributes["positions"]
positions64xyLow == attributes["positions64xyLow"]
nextPositions == attributes["nextPositions"]
nextPositions64xyLow == attributes["nextPositions64xyLow"]
pickingColors == attributes["pickingColors"]

\* getPickingColor applied to one index
PickingColorOf(index) ==
    /\ picked' = [called |-> TRUE, index |-> index, color |-> getPickingColor(index)]
    /\ UNCHANGED <<polygons, pointCount, IndexType, attributes, status, lastCall,
                   ret, retFresh, calledUpdate, calledFp64>>

Next ==
    \/ \E fp64 \in BOOLEAN, extruded \in BOOLEAN :
            PolygonTesselator_updatePositions(fp64, extruded)
    \/ PolygonTesselator_indices
    \/ \E key \in ElevationKeys, acc \in Accessors :
            PolygonTesselator_elevations(key, acc)
    \/ \E key \in ColorKeys, acc \in Accessors :
            PolygonTesselator_colors(key, acc)

Spec == Init /\ [][Next]_vars

\* construction, and what depends on the constructed collection alone: the index
\* buffer and the picking colors
NextBuild ==
    \/ PolygonTesselator_indices
    \/ \E index \in PickSamples : PickingColorOf(index)

SpecBuild == InitBuild /\ [][NextBuild]_vars

----------------------------------------------------------------------------
(* What the properties speak of *)

\* vertices of the polygons before polygon p (0-based): offsets[p] of the layout
RECURSIVE VerticesBefore(_, _)
VerticesBefore(ps, p) ==
    IF p = 0 THEN 0
    ELSE VerticesBefore(ps, p - 1) + Len(Flatten(ps[p]))

TotalVertices(ps) == VerticesBefore(ps, Len(ps))

\* the global vertex slots of polygon p (0-based)
SlotsOf(ps, p) == VerticesBefore(ps, p)..(VerticesBefore(ps, p + 1) - 1)

PolygonIndices == 0..(Len(polygons) - 1)

\* the n components a buffer holds for vertex slot v; <<>> when the buffer is
\* too short to hold them
Components(buf, v, n) ==
    IF (v + 1) * n <= buf.length THEN [c \in 1..n |-> buf.data[v * n + c - 1]]
    ELSE <<>>

Decode(color) == color[1] + 256 * color[2] + 65536 * color[3]

\* the index values of the layout: each polygon's local surface indices, in
\* polygon order, each increased by the vertices of the polygons before it
RECURSIVE ExpectedIndices(_, _)
ExpectedIndices(ps, p) ==
    IF p >= Len(ps) THEN <<>>
    ELSE LET local == Polygon_getSurfaceIndices(ps[p + 1])
         IN [k \in 1..Len(local) |-> local[k] + VerticesBefore(ps, p)]
            \o ExpectedIndices(ps, p + 1)

RECURSIVE TotalTriangles(_)
TotalTriangles(ps) ==
    IF ps = <<>> THEN 0
    ELSE Polygon_getTriangleCount(Head(ps)) + TotalTriangles(Tail(ps))

\* whether n vertices are more than an index of type T can address
ExceedsIndexRange(T, n) ==
    CASE T = "Uint8Array" -> n > 255
      [] T = "Uint16Array" -> n > 65535
      [] OTHER -> n \div Pow2(16) >= Pow2(16)

\* the cache keys a call writes to
Touched(call) ==
    CASE call.op = "updatePositions" ->
            {"positions", "nextPositions"}
                \cup (IF call.fp64 THEN {"positions64xyLow", "nextPositions64xyLow"}
                      ELSE {})
      [] call.op \in {"elevations", "colors"} -> {call.key}
      [] OTHER -> {}

Stride(key) ==
    CASE key \in {"positions", "nextPositions", "pickingColors"} -> 3
      [] key \in {"positions64xyLow", "nextPositions64xyLow"} -> 2
      [] key = "colors" -> 4
      [] key = "elevations" -> 1

----------------------------------------------------------------------------
(* C1: in every reachable state of a tesselator, after construction and after
   any sequence of updatePositions, indices, elevations and colors calls,
   pointCount is the sum of the vertex counts of the polygons in this.polygons. *)
C1_PointCountIsVertexSum == pointCount = TotalVertices(polygons)

C1_Witness ==
    /\ lastCall.op = "colors"
    /\ calledUpdate
    /\ attributes["elevations"] # Undefined
    /\ Len(polygons) = 3
    /\ pointCount = 13

(* C2: construction fails with a capacity error, before any buffer is built,
   whenever the total vertex count exceeds what the configured index type can
   represent, for every index type and not only the 16-bit one. *)
C2_CapacityErrorForEveryWidth ==
    ExceedsIndexRange(IndexType, pointCount)
        => (status = "failed" /\ attributes = NoCache)

\* the ring of k vertices at global offset o: each next position is the
\* position of the following vertex, the last one that of the first
RingWraps(o, k) ==
    /\ \A j \in 0..(k - 2) :
          /\ Components(nextPositions, o + j, 3) # <<>>
          /\ Components(nextPositions, o + j, 3) = Components(positions, o + j + 1, 3)
    /\ Components(nextPositions, o + k - 1, 3) # <<>>
    /\ Components(nextPositions, o + k - 1, 3) = Components(positions, o, 3)

(* C3: after updatePositions with extruded = true, for every ring of k vertices
   at global offset o, of a polygon with or without holes, nextPositions[o + j]
   is positions[o + j + 1] for j < k - 1 and nextPositions[o + k - 1] is
   positions[o]: the last vertex of a ring wraps to the first vertex of that
   ring. *)
C3_NextPositionsWrapWithinRing ==
    (lastCall.op = "updatePositions" /\ lastCall.extruded)
        => \A p \in PolygonIndices :
             \A r \in 1..Len(polygons[p + 1]) :
                RingWraps(VerticesBefore(polygons, p)
                            + SumLen(SubSeq(polygons[p + 1], 1, r - 1)),
                          Len(polygons[p + 1][r]))

(* C4: after any sequence of updatePositions, elevations and colors calls, with
   any key argument, every buffer held in the cache and every buffer returned by
   elevations() and colors() has length pointCount times the stride of its
   attribute. *)
C4_BufferLengths ==
    /\ \A key \in Keys :
          attributes[key] # Undefined
              => attributes[key].length = pointCount * Stride(key)
    /\ lastCall.op = "elevations" => ret.length = pointCount * Stride("elevations")
    /\ lastCall.op = "colors" => ret.length = pointCount * Stride("colors")

(* C5: for every collection construction succeeds for, every value of the
   buffer indices() returns is in [0, pointCount), for every index width (the
   stored values being reduced modulo 2^width). *)
C5_IndicesBelowPointCount ==
    lastCall.op = "indices"
        => \A k \in DOMAIN ret.data : ret.data[k] >= 0 /\ ret.data[k] < pointCount

C5_Witness ==
    /\ lastCall.op = "indices"
    /\ IndexType = "Uint8Array"
    /\ pointCount > 256
    /\ ret.length > 0
    /\ \E k \in DOMAIN ret.data : ret.data[k] # ExpectedIndices(polygons, 0)[k + 1]

(* C6: indices() returns a buffer of length 3 x (sum of the triangle counts)
   that is the concatenation, in polygon order and in triangulation order, of
   each polygon's local surface indices each increased by the number of
   vertices of the polygons before it; the stored value is exactly that sum. *)
C6_IndicesAreOffsetLocalIndices ==
    lastCall.op = "indices"
        => LET expected == ExpectedIndices(polygons, 0) IN
           /\ ret.length = 3 * TotalTriangles(polygons)
           /\ Len(expected) = ret.length
           /\ \A k \in DOMAIN ret.data : ret.data[k] = expected[k + 1]

(* C7: right after construction, for every polygon index p in [0, 2^24 - 2]
   and every vertex of polygon p, the picking colour (b0, b1, b2) of the vertex
   satisfies b0 + 256 b1 + 65536 b2 = p + 1; so no vertex has id 0 and the
   vertices of two different polygons have different triples. *)
C7_PickingColorsDecode ==
    /\ (status = "constructed" /\ lastCall.op \in {"constructor", "indices"})
          => /\ pickingColors.length = 3 * pointCount
             /\ \A p \in PolygonIndices : \A v \in SlotsOf(polygons, p) :
                   Decode(Components(pickingColors, v, 3)) = p + 1
             /\ \A p, q \in PolygonIndices :
                   (p # q /\ SlotsOf(polygons, p) # {} /\ SlotsOf(polygons, q) # {})
                       => Components(pickingColors, VerticesBefore(polygons, p), 3)
                            # Components(pickingColors, VerticesBefore(polygons, q), 3)
    /\ (picked.called /\ picked.index <= Pow2(24) - 2)
          => /\ Decode(picked.color) = picked.index + 1
             /\ \A c \in 1..3 : picked.color[c] \in 0..255

C7_Witness ==
    /\ status = "constructed"
    /\ Len(polygons) = 2
    /\ Len(polygons[1]) = 2
    /\ pointCount > 256
    /\ picked.called
    /\ picked.index = Pow2(24) - 2
    /\ picked.color = <<255, 255, 255>>

\* the colour of polygon p as stored: 255 for an alpha that is missing or NaN
ExpectedColor(acc, p) ==
    LET color == getColor(acc, p) IN
    <<color[1], color[2], color[3],
      IF Len(color) < 4 THEN 255 ELSE IF color[4] = NaN THEN 255 ELSE color[4]>>

(* C8: after colors({getColor}), for every polygon p and every vertex of p, of
   every ring, the 4 components stored for the vertex are the r, g, b and alpha
   of getColor(p), with 255 for an alpha that is not a number or missing; the
   vertices of p are the slots [offsets[p], offsets[p + 1]). *)
C8_ColorsReplicated ==
    (lastCall.op = "colors" /\ lastCall.key = "colors")
        => \A p \in PolygonIndices : \A v \in SlotsOf(polygons, p) :
              Components(ret, v, 4) = ExpectedColor(lastCall.acc, p)

\* one step: cached buffers keep their identity, keys the call does not write
\* keep their buffers, and elevations/colors return the cached object
C9_Step ==
    /\ \A key \in Keys :
          /\ attributes[key] # Undefined
                => /\ attributes'[key].id = attributes[key].id
                   /\ attributes'[key].type = attributes[key].type
                   /\ attributes'[key].length = attributes[key].length
          /\ key \notin Touched(lastCall') => attributes'[key] = attributes[key]
    /\ (lastCall'.op \in {"elevations", "colors"}
            /\ attributes[lastCall'.key] # Undefined)
          => /\ ret' = attributes'[lastCall'.key]
             /\ ret'.id = attributes[lastCall'.key].id
             /\ ~retFresh'

(* C9: once a buffer is cached under an attribute name, every later call that
   rebuilds the attribute overwrites and returns that same buffer object and
   allocates no replacement; a call that rebuilds one attribute leaves the
   buffers cached under every other name as they were. *)
C9_BuffersReusedInPlace == [][C9_Step]_vars

C9_Witness ==
    /\ lastCall.op = "elevations"
    /\ lastCall.key = "elevations"
    /\ ~retFresh
    /\ ret = attributes["elevations"]
    /\ ret.id = 1
    /\ calledFp64
    /\ attributes["colors"] # Undefined

(* C10: right after construction pickingColors() returns a fully built buffer
   and positions(), nextPositions(), positions64xyLow() and
   nextPositions64xyLow() return none; positions() and nextPositions() return
   a buffer only after the first updatePositions call, the two 64xyLow getters
   only after the first updatePositions call with fp64 = true; indices() builds
   a new buffer with the same contents on every call. *)
C10_LifecycleOrdering ==
    /\ (status = "constructed" /\ lastCall.op = "constructor")
          => /\ pickingColors = calculatePickingColors(polygons, pointCount)
             /\ positions = Undefined /\ nextPositions = Undefined
             /\ positions64xyLow = Undefined /\ nextPositions64xyLow = Undefined
    /\ (positions # Undefined \/ nextPositions # Undefined) => calledUpdate
    /\ (positions64xyLow # Undefined \/ nextPositions64xyLow # Undefined)
          => calledFp64
    /\ lastCall.op = "indices"
          => (retFresh /\ ret = calculateIndices(polygons, IndexType))

====
